---- MODULE Spec2Model ----
(***************************************************************************)
(* Model of rhai-http (src/lib.rs): the request(client, parameters)      *)
(* function of the rhai_http module.  One call is followed from the raw    *)
(* rhai map to the returned Dynamic or error: deserialization into         *)
(* Parameters, Method::from_str, the header closure collected into a   *)
(* HeaderMap, send() and the decoding selected by Output.              *)
(*                                                                         *)
(* Text is a sequence of one-character strings; a response body is a       *)
(* sequence of bytes (0..255); a decoded string is a sequence of code      *)
(* points.                                                                 *)
(***************************************************************************)
EXTENDS Integers, Sequences, FiniteSets

VARIABLES
    parameters,  \* the rhai map given to request
    pc,          \* the step of request that runs next
    descriptor,  \* the deserialized Parameters, None before
    method,      \* the parsed reqwest::Method, None before
    builder,     \* the RequestBuilder: url result and header map
    network,     \* the requests handed to the network, in order
    response,    \* the response received, None before
    decodes,     \* number of response bodies decoded
    result       \* the value or error returned, None while running

vars == <<parameters, pc, descriptor, method, builder, network, response,
          decodes, result>>

\* Bounds of the model.
MaxHeaders == 3

----------------------------------------------------------------------------
(* rhai::Dynamic values *)

Unit == [t |-> "unit"]
Str(s) == [t |-> "string", s |-> s]
Integer(n) == [t |-> "int", n |-> n]
Array(a) == [t |-> "array", a |-> a]
Map(m) == [t |-> "map", m |-> m]

None == [t |-> "none"]

Digit(n) == <<"0", "1", "2", "3", "4", "5", "6", "7", "8", "9">>[n + 1]

RECURSIVE IntToString(_)
IntToString(n) == IF n < 10 THEN <<Digit(n)>>
                  ELSE IntToString(n \div 10) \o <<Digit(n % 10)>>

\* Display for Dynamic (to_string()): unit prints nothing, a string
\* prints itself, an integer its decimal digits.
DynamicToString(d) ==
    CASE d.t = "unit" -> <<>>
      [] d.t = "string" -> d.s
      [] d.t = "int" -> IntToString(d.n)
      [] OTHER -> <<"#">>

----------------------------------------------------------------------------
(* str helpers *)

WhiteSpace == {" ", "\t", "\n", "\r"}

RECURSIVE TrimStart(_)
TrimStart(s) == IF s # <<>> /\ Head(s) \in WhiteSpace THEN TrimStart(Tail(s))
                ELSE s

RECURSIVE TrimEnd(_)
TrimEnd(s) == IF s # <<>> /\ s[Len(s)] \in WhiteSpace
              THEN TrimEnd(SubSeq(s, 1, Len(s) - 1))
              ELSE s

Trim(s) == TrimEnd(TrimStart(s))

\* Index of the first occurrence of c in s, 0 when there is none.
Find(s, c) == IF \E i \in 1..Len(s) : s[i] = c
              THEN CHOOSE i \in 1..Len(s) :
                       s[i] = c /\ \A j \in 1..(i - 1) : s[j] # c
              ELSE 0

\* str::split_once: the text before and after the first delimiter.
SplitOnce(s, c) ==
    LET i == Find(s, c)
    IN  IF i = 0 THEN None
        ELSE [t |-> "some", name |-> SubSeq(s, 1, i - 1),
              value |-> SubSeq(s, i + 1, Len(s))]

UpperCase == <<"A", "B", "C", "D", "E", "F", "G", "H", "I", "J", "K", "L", "M",
               "N", "O", "P", "Q", "R", "S", "T", "U", "V", "W", "X", "Y", "Z">>
LowerCase == <<"a", "b", "c", "d", "e", "f", "g", "h", "i", "j", "k", "l", "m",
               "n", "o", "p", "q", "r", "s", "t", "u", "v", "w", "x", "y", "z">>

ToLower(c) == IF \E i \in 1..26 : UpperCase[i] = c
              THEN LowerCase[CHOOSE i \in 1..26 : UpperCase[i] = c]
              ELSE c

\* Characters that are not HTTP token characters.
Separators == {" ", "\t", "\n", "\r", ":", "\"", "(", ")", ",", "/", ";", "<",
               "=", ">", "?", "@", "[", "\\", "]", "{", "}"}

IsToken(s) == s # <<>> /\ \A i \in 1..Len(s) : s[i] \notin Separators

Ok(v) == [ok |-> TRUE, val |-> v]
Err(stage, msg) == [ok |-> FALSE, stage |-> stage, msg |-> msg]

----------------------------------------------------------------------------
(* Deserialization of the rhai map into Parameters *)

Has(p, k) == k \in DOMAIN p

\* method: String, no serde default: the field is required.
MethodFieldDefaultGet(p) ==
    IF ~Has(p, "method") THEN Ok(<<"G", "E", "T">>)
    ELSE IF p["method"].t = "string" THEN Ok(p["method"].s)
    ELSE Err("deserialize", <<"method: invalid type, expected string">>)

MethodField(p) ==
    IF ~Has(p, "method") THEN Err("deserialize", <<"missing field method">>)
    ELSE IF p["method"].t = "string" THEN Ok(p["method"].s)
    ELSE Err("deserialize", <<"method: invalid type, expected string">>)

\* url: String, no serde default: the field is required.
UrlFieldLenient(p) ==
    IF ~Has(p, "url") THEN Ok(<<>>)
    ELSE Ok(DynamicToString(p["url"]))

UrlField(p) ==
    IF ~Has(p, "url") THEN Err("deserialize", <<"missing field url">>)
    ELSE IF p["url"].t = "string" THEN Ok(p["url"].s)
    ELSE Err("deserialize", <<"url: invalid type, expected string">>)

\* A map given as Name -> Value, rewritten as "Name:Value" entries.
MapEntries(m) == [i \in 1..Len(m) |-> Str(m[i].name \o <<":">> \o m[i].value)]

HeadersFieldAnyShape(p) ==
    IF ~Has(p, "headers") THEN Ok(<<>>)
    ELSE IF p["headers"].t = "array" THEN Ok(p["headers"].a)
    ELSE IF p["headers"].t = "map" THEN Ok(MapEntries(p["headers"].m))
    ELSE Err("deserialize", <<"headers: invalid type, expected array">>)

\* #[serde(default)] headers: rhai::Array: only an array deserializes.
HeadersField(p) ==
    IF ~Has(p, "headers") THEN Ok(<<>>)
    ELSE IF p["headers"].t = "array" THEN Ok(p["headers"].a)
    ELSE Err("deserialize", <<"headers: invalid type, expected array">>)

BodyFieldRequired(p) ==
    IF Has(p, "body") THEN Ok(p["body"])
    ELSE Err("deserialize", <<"missing field body">>)

\* #[serde(default)] body: rhai::Dynamic: any value, unit when absent.
BodyField(p) == IF Has(p, "body") THEN Ok(p["body"]) ELSE Ok(Unit)

\* enum Output, rename_all = "snake_case", #[default] Text.
Output == {"Text", "Json"}

OutputField(p) ==
    IF ~Has(p, "output") THEN Ok("Text")
    ELSE IF p["output"].t # "string"
         THEN Err("deserialize", <<"output: invalid type, expected enum">>)
    ELSE IF p["output"].s = <<"t", "e", "x", "t">> THEN Ok("Text")
    ELSE IF p["output"].s = <<"j", "s", "o", "n">> THEN Ok("Json")
    ELSE Err("deserialize", <<"output: unknown variant">>)

\* The first failure among a sequence of results, None when all succeeded.
FirstErr(rs) == IF \E i \in 1..Len(rs) : ~rs[i].ok
                THEN rs[CHOOSE i \in 1..Len(rs) :
                            ~rs[i].ok /\ \A j \in 1..(i - 1) : rs[j].ok]
                ELSE None

\* from_dynamic::<Parameters>: the entries of the map are visited in key
\* order, then the fields without default that were not seen are reported.
Parameters(p) ==
    LET body == BodyField(p)
        hdrs == HeadersField(p)
        meth == MethodField(p)
        outp == OutputField(p)
        url == UrlField(p)
        seen == <<IF Has(p, "body") THEN body ELSE Ok(Unit),
                  IF Has(p, "headers") THEN hdrs ELSE Ok(Unit),
                  IF Has(p, "method") THEN meth ELSE Ok(Unit),
                  IF Has(p, "output") THEN outp ELSE Ok(Unit),
                  IF Has(p, "url") THEN url ELSE Ok(Unit)>>
        e == FirstErr(seen \o <<meth, url, hdrs, body, outp>>)
    IN  IF e # None THEN e
        ELSE Ok([method |-> meth.val, url |-> url.val, headers |-> hdrs.val,
                 body |-> body.val, output |-> outp.val])

----------------------------------------------------------------------------
(* Method, url and header parsing *)

\* reqwest::Method::from_str: any non-empty token is a method (standard or
\* extension); anything else is rejected.
MethodFromStr(m) == IF IsToken(m) THEN Ok(m)
                    ELSE Err("method", <<"invalid HTTP method">>)

Alpha == {UpperCase[i] : i \in 1..26} \cup {LowerCase[i] : i \in 1..26}

RECURSIVE StripSlashes(_)
StripSlashes(s) == IF s # <<>> /\ Head(s) = "/" THEN StripSlashes(Tail(s))
                   ELSE s

\* IntoUrl for the url given to client.request: a scheme, a colon and a
\* host are needed; the failure is kept in the builder until send().
IntoUrl(u) ==
    LET i == Find(u, ":")
    IN  IF i > 1 /\ (\A j \in 1..(i - 1) : u[j] \in Alpha)
           /\ StripSlashes(SubSeq(u, i + 1, Len(u))) # <<>>
        THEN Ok(u)
        ELSE Err("send", <<"builder error: relative URL without a base">>)

\* HeaderName::from_str: a non-empty token, kept in lower case.
HeaderNameFromStr(name) ==
    IF IsToken(name) THEN Ok([i \in 1..Len(name) |-> ToLower(name[i])])
    ELSE Err("header", <<"invalid HTTP header name">>)

\* HeaderValue::from_str: no control character other than the tab.
ControlChars == {"\n", "\r"}

HeaderValueFromStr(value) ==
    IF \A i \in 1..Len(value) : value[i] \notin ControlChars THEN Ok(value)
    ELSE Err("header", <<"failed to parse header value">>)

NotAValidHeaderTrimmed(text) ==
    <<"'">> \o Trim(text) \o <<"'", " is not a valid header">>

\* format!("'{header}' is not a valid header")
NotAValidHeader(text) == <<"'">> \o text \o <<"'", " is not a valid header">>

\* The closure applied to each element of headers.
ParseHeader(header) ==
    LET text == DynamicToString(header)
        split == SplitOnce(text, ":")
    IN  IF split = None THEN Err("header", NotAValidHeader(text))
        ELSE LET name == HeaderNameFromStr(Trim(split.name))
                 value == HeaderValueFromStr(Trim(split.value))
             IN  IF ~name.ok THEN name
                 ELSE IF ~value.ok THEN value
                 ELSE Ok([name |-> name.val, value |-> value.val])

----------------------------------------------------------------------------
(* http::HeaderMap: one bucket per name, in order of first insertion, each *)
(* holding the values appended under that name.                            *)

Bucket(map, name) == CHOOSE i \in 1..Len(map) : map[i].name = name

Contains(map, name) == \E i \in 1..Len(map) : map[i].name = name

\* HeaderMap::insert: the value replaces those already held for the name.
HeaderMapInsert(map, name, value) ==
    IF Contains(map, name)
    THEN [map EXCEPT ![Bucket(map, name)].values = <<value>>]
    ELSE Append(map, [name |-> name, values |-> <<value>>])

HeaderMapAppendOverwrite(map, name, value) ==
    IF Contains(map, name)
    THEN [map EXCEPT ![Bucket(map, name)].values = <<value>>]
    ELSE Append(map, [name |-> name, values |-> <<value>>])

\* HeaderMap::append: the value is added after those held for the name.
HeaderMapAppend(map, name, value) ==
    IF Contains(map, name)
    THEN [map EXCEPT ![Bucket(map, name)].values = Append(@, value)]
    ELSE Append(map, [name |-> name, values |-> <<value>>])

\* FromIterator<(HeaderName, T)>: extend, which appends each pair.
RECURSIVE HeaderMapFromIter(_, _)
HeaderMapFromIter(map, pairs) ==
    IF pairs = <<>> THEN map
    ELSE HeaderMapFromIter(
             HeaderMapAppend(map, Head(pairs).name, Head(pairs).value),
             Tail(pairs))

\* Iteration of a HeaderMap: bucket by bucket, the values of one name
\* together.
RECURSIVE HeaderMapIter(_)
HeaderMapIter(map) ==
    IF map = <<>> THEN <<>>
    ELSE [i \in 1..Len(Head(map).values) |->
              [name |-> Head(map).name, value |-> Head(map).values[i]]]
         \o HeaderMapIter(Tail(map))

\* RequestBuilder::headers (replace_headers): the first value of a name
\* is inserted, the following ones are appended.
RECURSIVE ReplaceHeaders(_, _)
ReplaceHeaders(dst, src) ==
    IF src = <<>> THEN dst
    ELSE LET b == Head(src)
             first == HeaderMapInsert(dst, b.name, b.values[1])
             rest == [i \in 1..(Len(b.values) - 1) |->
                          [name |-> b.name, value |-> b.values[i + 1]]]
         IN  ReplaceHeaders(HeaderMapFromIter(first, rest), Tail(src))

\* .map(closure).collect::<Result<HeaderMap, _>>(): the first entry that
\* fails ends the collection with its error.
CollectHeadersSkipInvalid(hs) ==
    LET parsed == [i \in 1..Len(hs) |-> ParseHeader(hs[i])]
        good == SelectSeq(parsed, LAMBDA r : r.ok)
    IN  Ok(HeaderMapFromIter(<<>>, [i \in 1..Len(good) |-> good[i].val]))

CollectHeaders(hs) ==
    LET parsed == [i \in 1..Len(hs) |-> ParseHeader(hs[i])]
        e == FirstErr(parsed)
    IN  IF e # None THEN e
        ELSE Ok(HeaderMapFromIter(<<>>, [i \in 1..Len(hs) |-> parsed[i].val]))

----------------------------------------------------------------------------
(* UTF-8 *)

Replacement == 65533

Width(h) == IF h < 128 THEN 1
            ELSE IF h \in 194..223 THEN 2
            ELSE IF h \in 224..239 THEN 3
            ELSE IF h \in 240..244 THEN 4
            ELSE 0

SecondLo(h) == IF h = 224 THEN 160 ELSE IF h = 240 THEN 144 ELSE 128
SecondHi(h) == IF h = 237 THEN 159 ELSE IF h = 244 THEN 143 ELSE 191

\* Number of leading bytes of b that form a prefix of one encoded character.
PrefixLen(b) ==
    LET h == b[1]
        w == Width(h)
        ok2 == w >= 2 /\ Len(b) >= 2 /\ b[2] \in SecondLo(h)..SecondHi(h)
        ok3 == ok2 /\ w >= 3 /\ Len(b) >= 3 /\ b[3] \in 128..191
        ok4 == ok3 /\ w >= 4 /\ Len(b) >= 4 /\ b[4] \in 128..191
    IN  IF ok4 THEN 4 ELSE IF ok3 THEN 3 ELSE IF ok2 THEN 2 ELSE 1

CodePoint(b, w) ==
    CASE w = 1 -> b[1]
      [] w = 2 -> (b[1] - 192) * 64 + (b[2] - 128)
      [] w = 3 -> (b[1] - 224) * 4096 + (b[2] - 128) * 64 + (b[3] - 128)
      [] w = 4 -> (b[1] - 240) * 262144 + (b[2] - 128) * 4096
                  + (b[3] - 128) * 64 + (b[4] - 128)

RECURSIVE Utf8Valid(_)
Utf8Valid(b) ==
    IF b = <<>> THEN TRUE
    ELSE LET w == Width(b[1])
         IN  w > 0 /\ PrefixLen(b) = w /\ Utf8Valid(SubSeq(b, w + 1, Len(b)))

\* Lossy decoding: every malformed sequence becomes U+FFFD.
RECURSIVE Utf8Lossy(_)
Utf8Lossy(b) ==
    IF b = <<>> THEN <<>>
    ELSE LET w == Width(b[1])
             n == PrefixLen(b)
         IN  IF w > 0 /\ n = w
             THEN <<CodePoint(b, w)>> \o Utf8Lossy(SubSeq(b, w + 1, Len(b)))
             ELSE <<Replacement>> \o Utf8Lossy(SubSeq(b, n + 1, Len(b)))

RECURSIVE Utf8Encode(_)
Utf8Encode(s) ==
    IF s = <<>> THEN <<>>
    ELSE LET c == Head(s)
             e == IF c < 128 THEN <<c>>
                  ELSE IF c < 2048 THEN <<192 + (c \div 64), 128 + (c % 64)>>
                  ELSE IF c < 65536
                       THEN <<224 + (c \div 4096), 128 + ((c \div 64) % 64),
                              128 + (c % 64)>>
                  ELSE <<240 + (c \div 262144), 128 + ((c \div 4096) % 64),
                         128 + ((c \div 64) % 64), 128 + (c % 64)>>
         IN  e \o Utf8Encode(Tail(s))

----------------------------------------------------------------------------
(* JSON (serde_json::from_slice), for bodies without escapes, signs,      *)
(* fractions or exponents.                                                 *)

JsonWhiteSpace == {32, 9, 10, 13}
Digits == 48..57

Bool(b) == [t |-> "bool", b |-> b]

Parsed(v, pos) == [ok |-> TRUE, val |-> v, pos |-> pos]
Malformed == [ok |-> FALSE]

RECURSIVE SkipWs(_, _)
SkipWs(b, i) == IF i <= Len(b) /\ b[i] \in JsonWhiteSpace THEN SkipWs(b, i + 1)
                ELSE i

\* Lexicographic order of two strings, the order of the keys of a rhai::Map.
RECURSIVE SeqLess(_, _)
SeqLess(a, b) ==
    IF b = <<>> THEN FALSE
    ELSE IF a = <<>> THEN TRUE
    ELSE IF Head(a) # Head(b) THEN Head(a) < Head(b)
    ELSE SeqLess(Tail(a), Tail(b))

\* BTreeMap::insert on a key-ordered sequence of entries.
MapInsert(m, k, v) ==
    LET before == SelectSeq(m, LAMBDA e : SeqLess(e.key, k))
        after == SelectSeq(m, LAMBDA e : SeqLess(k, e.key))
    IN  before \o <<[key |-> k, value |-> v]>> \o after

StartsWith(b, i, lit) ==
    i + Len(lit) - 1 <= Len(b) /\ SubSeq(b, i, i + Len(lit) - 1) = lit

\* A string starting at the quote b[i].
ParseString(b, i) ==
    IF \E j \in (i + 1)..Len(b) : b[j] = 34
    THEN LET j == CHOOSE j \in (i + 1)..Len(b) :
                      b[j] = 34 /\ \A k \in (i + 1)..(j - 1) : b[k] # 34
             content == SubSeq(b, i + 1, j - 1)
         IN  IF Utf8Valid(content)
                /\ \A k \in 1..Len(content) : content[k] >= 32
             THEN Parsed(Str(Utf8Lossy(content)), j + 1)
             ELSE Malformed
    ELSE Malformed

RECURSIVE DigitsEnd(_, _)
DigitsEnd(b, i) == IF i <= Len(b) /\ b[i] \in Digits THEN DigitsEnd(b, i + 1)
                   ELSE i

RECURSIVE Decimal(_)
Decimal(ds) == IF ds = <<>> THEN 0
               ELSE Decimal(SubSeq(ds, 1, Len(ds) - 1)) * 10
                    + (ds[Len(ds)] - 48)

\* A number starting at the digit b[i]; a leading zero stands alone.
ParseNumber(b, i) ==
    IF b[i] = 48 THEN Parsed(Integer(0), i + 1)
    ELSE LET j == DigitsEnd(b, i)
         IN  Parsed(Integer(Decimal(SubSeq(b, i, j - 1))), j)

RECURSIVE ParseValue(_, _), ParseElements(_, _, _), ParseMembers(_, _, _)

\* The value starting at b[i], white space already skipped.
ParseValue(b, i) ==
    IF i > Len(b) THEN Malformed
    ELSE IF b[i] = 123
         THEN LET j == SkipWs(b, i + 1)
              IN  IF j <= Len(b) /\ b[j] = 125 THEN Parsed(Map(<<>>), j + 1)
                  ELSE ParseMembers(b, j, <<>>)
    ELSE IF b[i] = 91
         THEN LET j == SkipWs(b, i + 1)
              IN  IF j <= Len(b) /\ b[j] = 93 THEN Parsed(Array(<<>>), j + 1)
                  ELSE ParseElements(b, j, <<>>)
    ELSE IF b[i] = 34 THEN ParseString(b, i)
    ELSE IF b[i] \in Digits THEN ParseNumber(b, i)
    ELSE IF StartsWith(b, i, <<116, 114, 117, 101>>)
         THEN Parsed(Bool(TRUE), i + 4)
    ELSE IF StartsWith(b, i, <<102, 97, 108, 115, 101>>)
         THEN Parsed(Bool(FALSE), i + 5)
    ELSE IF StartsWith(b, i, <<110, 117, 108, 108>>)
         THEN Parsed(Unit, i + 4)
    ELSE Malformed

\* The elements of an array, an element being expected at b[i].
ParseElements(b, i, acc) ==
    LET v == ParseValue(b, i)
    IN  IF ~v.ok THEN Malformed
        ELSE LET j == SkipWs(b, v.pos)
             IN  IF j > Len(b) THEN Malformed
                 ELSE IF b[j] = 44
                      THEN ParseElements(b, SkipWs(b, j + 1),
                                         Append(acc, v.val))
                 ELSE IF b[j] = 93
                      THEN Parsed(Array(Append(acc, v.val)), j + 1)
                 ELSE Malformed

\* The members of an object, a key being expected at b[i].
ParseMembers(b, i, acc) ==
    IF i > Len(b) \/ b[i] # 34 THEN Malformed
    ELSE LET k == ParseString(b, i)
         IN  IF ~k.ok THEN Malformed
             ELSE LET c == SkipWs(b, k.pos)
                  IN  IF c > Len(b) \/ b[c] # 58 THEN Malformed
                      ELSE LET v == ParseValue(b, SkipWs(b, c + 1))
                           IN  IF ~v.ok THEN Malformed
                               ELSE LET j == SkipWs(b, v.pos)
                                        m == MapInsert(acc, k.val.s, v.val)
                                    IN  IF j > Len(b) THEN Malformed
                                        ELSE IF b[j] = 44
                                             THEN ParseMembers(
                                                      b, SkipWs(b, j + 1), m)
                                        ELSE IF b[j] = 125
                                             THEN Parsed(Map(m), j + 1)
                                        ELSE Malformed

\* One JSON document: a value, then nothing but white space.
JsonDocument(b) ==
    LET v == ParseValue(b, SkipWs(b, 1))
    IN  IF v.ok /\ SkipWs(b, v.pos) > Len(b) THEN v ELSE Malformed

----------------------------------------------------------------------------
(* Response decoding *)

BodyError == Err("decode", <<"error decoding response body">>)

Text(s) == [t |-> "text", s |-> s]

\* Response::text(): the body decoded as UTF-8, malformed sequences
\* replaced; only a failure to read the body is an error.
ResponseTextStrict(body, readOk) ==
    IF readOk /\ Utf8Valid(body) THEN Ok(Text(Utf8Lossy(body)))
    ELSE BodyError

ResponseText(body, readOk) ==
    IF readOk THEN Ok(Text(Utf8Lossy(body))) ELSE BodyError

\* Response::json::<rhai::Map>(): the document has to be an object.
ResponseJsonAnyValue(body, readOk) ==
    LET d == JsonDocument(body)
    IN  IF readOk /\ d.ok THEN Ok(d.val) ELSE BodyError

ResponseJson(body, readOk) ==
    LET d == JsonDocument(body)
    IN  IF readOk /\ d.ok /\ d.val.t = "map" THEN Ok(d.val) ELSE BodyError

DecodeCheckStatus(output, status, body, readOk) ==
    IF status \notin 200..299
    THEN Err("decode", <<"HTTP status client or server error">>)
    ELSE IF output = "Text" THEN ResponseText(body, readOk)
    ELSE ResponseJson(body, readOk)

\* The closure given to and_then: the status is not looked at.
Decode(output, status, body, readOk) ==
    IF output = "Text" THEN ResponseText(body, readOk)
    ELSE ResponseJson(body, readOk)

----------------------------------------------------------------------------
(* Inputs *)

GET == <<"G", "E", "T">>
ExampleUrl == <<"h", "t", "t", "p", ":", "/", "/", "x">>

HeaderA1 == Str(<<"A", ":", " ", "1">>)
HeaderB2 == Str(<<"B", ":", "2", " ">>)
Headera3 == Str(<<"a", ":", "3">>)
NoColon == Str(<<"n", "o", " ">>)
BadName == Str(<<"b", " ", "d", ":", "x">>)
BadValue == Str(<<"A", ":", "x", "\n", "y">>)

HeaderEntries == {HeaderA1, HeaderB2, Headera3, NoColon, BadName, BadValue}

SeqsUpTo(S, n) == UNION {[1..k -> S] : k \in 0..n}

MethodVals == {None, Str(GET), Str(<<"G", " ", "T">>), Integer(7)}
UrlVals == {None, Str(ExampleUrl), Str(<<"x">>), Integer(7)}
HeadersVals == {None, Map(<<[name |-> <<"A">>, value |-> <<"1">>]>>)}
               \cup {Array(a) : a \in SeqsUpTo(HeaderEntries, MaxHeaders)}
BodyVals == {None, Str(<<"h", "i">>)}
OutputVals == {None, Str(<<"t", "e", "x", "t">>), Str(<<"j", "s", "o", "n">>),
               Str(<<"x", "m", "l">>)}

\* The rhai map holding the fields that are given.
ParametersMap(m, u, h, b, o) ==
    LET all == [method |-> m, url |-> u, headers |-> h, body |-> b,
                output |-> o]
    IN  [k \in {f \in DOMAIN all : all[f].t # "none"} |-> all[k]]

Statuses == {200, 404, 500}

JsonA1 == <<123, 34, 97, 34, 58, 49, 125>>
JsonBad == <<123, 97, 58, 125>>
JsonNested == <<123, 34, 98, 34, 58, 91, 49, 44, 34, 97, 34, 93, 44, 32,
                34, 97, 34, 58, 123, 125, 125>>

Bodies == {<<>>, JsonA1, JsonBad, JsonNested,
           <<91, 49, 93>>, <<49>>, <<34, 97, 34>>,
           <<123, 34, 97, 34, 58, 49>>, <<123, 34, 97, 34, 58, 49, 125, 120>>,
           <<32, 123, 125, 10>>, <<104, 105>>, <<195, 169>>, <<195>>,
           <<104, 255, 105>>}

----------------------------------------------------------------------------
(* request(client, parameters), step by step *)

Init ==
    /\ \E m \in MethodVals, u \in UrlVals, h \in HeadersVals, b \in BodyVals,
          o \in OutputVals : parameters = ParametersMap(m, u, h, b, o)
    /\ pc = "deserialize"
    /\ descriptor = None
    /\ method = None
    /\ builder = None
    /\ network = <<>>
    /\ response = None
    /\ decodes = 0
    /\ result = None

\* rhai::serde::from_dynamic::<Parameters>(&parameters.into())?
Deserialize ==
    /\ pc = "deserialize"
    /\ LET r == Parameters(parameters)
       IN  IF r.ok
           THEN /\ descriptor' = r.val
                /\ pc' = "method"
                /\ UNCHANGED result
           ELSE /\ result' = r
                /\ pc' = "done"
                /\ UNCHANGED descriptor
    /\ UNCHANGED <<parameters, method, builder, network, response, decodes>>

\* reqwest::Method::from_str(&method).map_err(..)?
ParseMethod ==
    /\ pc = "method"
    /\ LET r == MethodFromStr(descriptor.method)
       IN  IF r.ok
           THEN /\ method' = r.val
                /\ pc' = "headers"
                /\ UNCHANGED result
           ELSE /\ result' = r
                /\ pc' = "done"
                /\ UNCHANGED method
    /\ UNCHANGED <<parameters, descriptor, builder, network, response,
                   decodes>>

\* client.request(method, url).headers(headers.iter().map(..).collect()?)
BuildRequest ==
    /\ pc = "headers"
    /\ LET r == CollectHeaders(descriptor.headers)
           url == IntoUrl(descriptor.url)
       IN  IF r.ok
           THEN /\ builder' = [url |-> url,
                               headers |-> IF url.ok
                                           THEN ReplaceHeaders(<<>>, r.val)
                                           ELSE <<>>]
                /\ pc' = "send"
                /\ UNCHANGED result
           ELSE /\ result' = r
                /\ pc' = "done"
                /\ UNCHANGED builder
    /\ UNCHANGED <<parameters, descriptor, method, network, response,
                   decodes>>

\* .body(body.to_string()).send(): a builder holding an error returns it
\* without a network call; otherwise the request goes out and either fails
\* or brings a response.
Send ==
    /\ pc = "send"
    /\ IF ~builder.url.ok
       THEN /\ result' = builder.url
            /\ pc' = "done"
            /\ UNCHANGED <<network, response>>
       ELSE /\ network' = Append(network,
                                 [method |-> method,
                                  url |-> builder.url.val,
                                  headers |-> HeaderMapIter(builder.headers),
                                  body |-> DynamicToString(descriptor.body)])
            /\ \E delivered \in BOOLEAN, status \in Statuses :
                   IF delivered
                   THEN /\ response' = [status |-> status]
                        /\ pc' = "decode"
                        /\ UNCHANGED result
                   ELSE /\ result' = Err("send", <<"error sending request">>)
                        /\ pc' = "done"
                        /\ UNCHANGED response
    /\ UNCHANGED <<parameters, descriptor, method, builder, decodes>>

\* .and_then(|response| match output { .. }).map_err(..)
DecodeResponse ==
    /\ pc = "decode"
    /\ \E body \in Bodies, readOk \in BOOLEAN :
           /\ response' = [status |-> response.status, body |-> body,
                           readOk |-> readOk]
           /\ result' = Decode(descriptor.output, response.status, body,
                               readOk)
    /\ decodes' = decodes + 1
    /\ pc' = "done"
    /\ UNCHANGED <<parameters, descriptor, method, builder, network>>

Next == Deserialize \/ ParseMethod \/ BuildRequest \/ Send \/ DecodeResponse

Spec == Init /\ [][Next]_vars

----------------------------------------------------------------------------
(* Properties *)

Done == pc = "done"
Failed(stage) == Done /\ ~result.ok /\ result.stage = stage
Decoded == Done /\ decodes = 1

HeaderTexts(p) == [i \in 1..Len(p["headers"].a) |->
                       DynamicToString(p["headers"].a[i])]
HasColon(text) == \E i \in 1..Len(text) : text[i] = ":"

UrlIsString(p) == Has(p, "url") /\ p["url"].t = "string"
MethodIsString(p) == Has(p, "method") /\ p["method"].t = "string"
HeadersIsArray(p) == Has(p, "headers") /\ p["headers"].t = "array"
OutputIsKnown(p) ==
    Has(p, "output") =>
        /\ p["output"].t = "string"
        /\ p["output"].s \in {<<"t", "e", "x", "t">>, <<"j", "s", "o", "n">>}
EntriesValid(p) ==
    HeadersIsArray(p) =>
        \A i \in 1..Len(p["headers"].a) : ParseHeader(p["headers"].a[i]).ok
\* Everything but the method is acceptable.
OthersValid(p) ==
    /\ UrlIsString(p) /\ IntoUrl(p["url"].s).ok
    /\ (Has(p, "headers") => HeadersIsArray(p))
    /\ EntriesValid(p)
    /\ OutputIsKnown(p)
\* The map deserializes and its method parses.
ReachesHeaders(p) ==
    /\ UrlIsString(p)
    /\ MethodIsString(p) /\ IsToken(p["method"].s)
    /\ (Has(p, "headers") => HeadersIsArray(p))
    /\ OutputIsKnown(p)

\* C1: a request goes to the network only when deserialization, the method
\* and every header passed; a failure in one of these leaves the network
\* untouched; a body is decoded only after a response arrived, never after
\* a failed send.
FailFastOrder ==
    /\ network # <<>> => ReachesHeaders(parameters) /\ EntriesValid(parameters)
    /\ (Failed("deserialize") \/ Failed("method") \/ Failed("header"))
           => network = <<>> /\ decodes = 0
    /\ decodes > 0 => Len(network) = 1 /\ response # None
    /\ Failed("send") => decodes = 0 /\ response = None
    /\ Len(network) <= 1 /\ decodes <= 1

SendFailedNotDecoded ==
    Failed("send") /\ network # <<>> /\ decodes = 0

\* C2: a map whose url is missing or is not a string never gets past
\* deserialization: the call ends with the deserialization error and no
\* request reaches the network.
MissingUrlFails ==
    ~UrlIsString(parameters) =>
        /\ pc \in {"deserialize", "done"}
        /\ network = <<>>
        /\ Done => Failed("deserialize")

UrlMissingRejected ==
    /\ Failed("deserialize")
    /\ ~Has(parameters, "url")
    /\ MethodIsString(parameters)

\* C3 (as stated): with a valid url and no method the request is sent with
\* the method GET.
MethodDefaultsToGet ==
    (Done /\ ~Has(parameters, "method") /\ OthersValid(parameters)) =>
        network # <<>> /\ network[1].method = GET

\* C3 (amended): method is required; a map without it fails in
\* deserialization and nothing is sent.
MethodRequired ==
    ~Has(parameters, "method") =>
        /\ pc \in {"deserialize", "done"}
        /\ network = <<>>
        /\ Done => Failed("deserialize")

MethodMissingRejected ==
    Failed("deserialize") /\ ~Has(parameters, "method")
    /\ OthersValid(parameters)

OnlyMethodAndUrl(p) ==
    DOMAIN p = {"method", "url"} /\ MethodIsString(p) /\ UrlIsString(p)

NoColonAt(p, i) == ~HasColon(HeaderTexts(p)[i])
Invalid(p) == {i \in 1..Len(p["headers"].a) :
                   ~ParseHeader(p["headers"].a[i]).ok}
FirstInvalid(p) == CHOOSE i \in Invalid(p) : \A j \in Invalid(p) : i <= j
Quoted(text) == <<"'">> \o text \o <<"'", " is not a valid header">>

\* C5 (as stated): whenever some element of headers has no colon, the call
\* fails with the message naming that element.
NoColonAlwaysNamed ==
    (Done /\ ReachesHeaders(parameters) /\ HeadersIsArray(parameters)
          /\ \E i \in 1..Len(parameters["headers"].a) :
                 NoColonAt(parameters, i)) =>
        /\ Failed("header")
        /\ network = <<>>
        /\ \E i \in 1..Len(parameters["headers"].a) :
               /\ NoColonAt(parameters, i)
               /\ result.msg = Quoted(HeaderTexts(parameters)[i])

\* C5 (amended): whenever some element of headers has no colon, the call
\* fails before any network activity with the error of the first invalid
\* element; when that element is one without a colon the message is its
\* original text in quotes followed by " is not a valid header".
NoColonFailsBeforeNetwork ==
    (Done /\ ReachesHeaders(parameters) /\ HeadersIsArray(parameters)
          /\ \E i \in 1..Len(parameters["headers"].a) :
                 NoColonAt(parameters, i)) =>
        /\ Failed("header")
        /\ network = <<>>
        /\ LET i == FirstInvalid(parameters)
           IN  IF NoColonAt(parameters, i)
               THEN result.msg = Quoted(HeaderTexts(parameters)[i])
               ELSE result.msg \in {<<"invalid HTTP header name">>,
                                    <<"failed to parse header value">>}

NoColonReported ==
    /\ Failed("header")
    /\ HeadersIsArray(parameters)
    /\ parameters["headers"].a = <<HeaderA1, NoColon>>
    /\ result.msg = <<"'", "n", "o", " ", "'", " is not a valid header">>

InputPairs == [i \in 1..Len(descriptor.headers) |->
                   ParseHeader(descriptor.headers[i]).val]
Named(pairs, n) == SelectSeq(pairs, LAMBDA e : e.name = n)
FirstOf(pairs, n) == CHOOSE i \in 1..Len(pairs) :
                         pairs[i].name = n
                         /\ \A j \in 1..(i - 1) : pairs[j].name # n

\* C6 (as stated): the headers of the outgoing request are the input
\* entries in the input order.
HeadersKeepInputOrder ==
    network # <<>> => network[1].headers = InputPairs

\* C6 (amended): no entry is dropped or merged and the values of one name
\* keep their input order, but the entries are grouped by name: the names
\* come in the order of their first occurrence, each followed by all its
\* values.
HeadersGroupedByName ==
    network # <<>> =>
        LET out == network[1].headers
        IN  /\ Len(out) = Len(InputPairs)
            /\ \A i \in 1..Len(out) :
                   Named(out, out[i].name) = Named(InputPairs, out[i].name)
            /\ \A i \in 1..Len(InputPairs) :
                   Named(out, InputPairs[i].name)
                       = Named(InputPairs, InputPairs[i].name)
            /\ \A i, j \in 1..Len(out) :
                   i < j => FirstOf(InputPairs, out[i].name)
                                <= FirstOf(InputPairs, out[j].name)

InterleavedNamesSent ==
    /\ network # <<>>
    /\ descriptor.headers = <<HeaderA1, HeaderB2, Headera3>>
    /\ network[1].headers = <<[name |-> <<"a">>, value |-> <<"1">>],
                              [name |-> <<"a">>, value |-> <<"3">>],
                              [name |-> <<"b">>, value |-> <<"2">>]>>

HeadersIsMap(p) == Has(p, "headers") /\ p["headers"].t = "map"

\* C7 (as stated): a headers field given as a mapping from name to value
\* is accepted like a sequence: such a map passes deserialization.
HeadersMappingAccepted ==
    (Done /\ HeadersIsMap(parameters) /\ UrlIsString(parameters)
          /\ MethodIsString(parameters) /\ OutputIsKnown(parameters)) =>
        ~Failed("deserialize")

\* C7 (amended): headers is accepted only as a sequence; a mapping fails
\* deserialization and nothing is sent.  Each entry of a sequence goes
\* through the header closure, and the first failing entry ends the call
\* with its error.
HeadersOnlyAsSequence ==
    /\ HeadersIsMap(parameters) =>
           /\ pc \in {"deserialize", "done"}
           /\ network = <<>>
           /\ Done => Failed("deserialize")
    /\ (Done /\ ReachesHeaders(parameters) /\ HeadersIsArray(parameters)) =>
           IF Invalid(parameters) = {}
           THEN ~Failed("header") /\ builder # None
           ELSE /\ network = <<>>
                /\ result = ParseHeader(
                       parameters["headers"].a[FirstInvalid(parameters)])

HeadersMappingRejected ==
    /\ Failed("deserialize")
    /\ HeadersIsMap(parameters)
    /\ UrlIsString(parameters) /\ MethodIsString(parameters)
    /\ OutputIsKnown(parameters)

\* C8: once a response has arrived, whatever its status, its body is
\* decoded and the call returns what the decoding of the requested output
\* gives; a status outside 2xx never produces an error by itself.
StatusNeverDecides ==
    /\ response # None => pc \in {"decode", "done"}
    /\ (Done /\ response # None) =>
           /\ decodes = 1
           /\ result = IF descriptor.output = "Text"
                       THEN ResponseText(response.body, response.readOk)
                       ELSE ResponseJson(response.body, response.readOk)
           /\ (descriptor.output = "Text" /\ response.readOk) => result.ok

NotFoundBodyReturned ==
    /\ Decoded
    /\ response.status = 404
    /\ response.body = <<104, 105>>
    /\ result = Ok(Text(<<104, 105>>))

TextDecoded == Decoded /\ descriptor.output = "Text" /\ response.readOk
JsonDecoded == Decoded /\ descriptor.output = "Json" /\ response.readOk

\* C9 (as stated): with output Text a UTF-8 body is returned as a string
\* and a body that is not UTF-8 fails.
TextRejectsInvalidUtf8 ==
    TextDecoded =>
        IF Utf8Valid(response.body)
        THEN result.ok /\ Utf8Encode(result.val.s) = response.body
        ELSE Failed("decode")

\* C9 (amended): with output Text every body that is read gives a string:
\* the body itself when it is UTF-8, and otherwise the body with each
\* malformed sequence replaced by U+FFFD; the call fails only when the
\* body cannot be read.
TextReplacesInvalidUtf8 ==
    /\ TextDecoded =>
           /\ result.ok /\ result.val.t = "text"
           /\ IF Utf8Valid(response.body)
              THEN /\ Utf8Encode(result.val.s) = response.body
                   /\ \A i \in 1..Len(result.val.s) :
                          result.val.s[i] # Replacement
              ELSE \E i \in 1..Len(result.val.s) :
                       result.val.s[i] = Replacement
           /\ response.body = <<104, 255, 105>> =>
                  result.val.s = <<104, Replacement, 105>>
           /\ response.body = <<195>> => result.val.s = <<Replacement>>
           /\ response.body = <<195, 169>> => result.val.s = <<233>>
    /\ (Decoded /\ ~response.readOk) => Failed("decode")

InvalidUtf8Returned ==
    /\ TextDecoded
    /\ response.body = <<104, 255, 105>>
    /\ result.ok

\* C10 (as stated): with output json every well-formed JSON body (object,
\* array or scalar) is returned as the parsed value and every malformed
\* body fails.
JsonAnyDocumentReturned ==
    JsonDecoded =>
        IF JsonDocument(response.body).ok
        THEN result.ok /\ result.val = JsonDocument(response.body).val
        ELSE Failed("decode")

\* C10 (amended): with output json the parsed value is returned exactly for
\* the well-formed bodies whose top level is an object ({"a":1} gives the
\* map a -> 1); a well-formed body whose top level is an array or a scalar
\* fails like a malformed one ({a:}), and an error carries no value.
JsonObjectsOnly ==
    JsonDecoded =>
        LET d == JsonDocument(response.body)
        IN  /\ result.ok <=> (d.ok /\ d.val.t = "map")
            /\ result.ok => result.val = d.val
            /\ ~result.ok => Failed("decode") /\ "val" \notin DOMAIN result
            /\ response.body = JsonA1 =>
                   result = Ok(Map(<<[key |-> <<97>>, value |-> Integer(1)]>>))
            /\ response.body \in {JsonBad, <<91, 49, 93>>, <<49>>,
                                  <<34, 97, 34>>, <<>>} => ~result.ok

JsonObjectReturned ==
    /\ JsonDecoded
    /\ response.body = JsonA1
    /\ result.ok
    /\ result.val.m[1].value.n = 1
====
